---- MODULE Spec2Model ----
(***************************************************************************)
(* Judge and Charge Sentencing Dashboard (src/app.py).                     *)
(*                                                                         *)
(* load_data() prepares the process-wide table df once at import time;     *)
(* update_dashboard() is the callback that filters df and builds the       *)
(* summary, the four distributions, the comparison chart and the table.    *)
(*                                                                         *)
(* A cell of a table is a record [k, n, s]: k is the kind ("nan" for a     *)
(* pandas NaN, "num" for a number, "str" for a Python str, "bool" for a    *)
(* bool), n the number, s the text as a sequence of one-character strings. *)
(* A table is [cols, rows]: the set of column names and the sequence of    *)
(* rows, each a function from cols to cells.                               *)
(*                                                                         *)
(* The variable file is what pd.read_csv('cases.csv') yields, with the     *)
(* column names as they are after line 48 removed a byte-order mark.  The  *)
(* date columns (lines 50-58) are converted in place under their own       *)
(* try/except and feed no derived column; they are not among the columns   *)
(* of the model.                                                           *)
(*                                                                         *)
(* Spec runs the callback one invocation at a time (sel, out).  SpecCalls  *)
(* runs several invocations at once, as the threaded server does: calls    *)
(* holds, for each, its position, its arguments and its local names.       *)
(***************************************************************************)
EXTENDS Integers, Sequences, FiniteSets, TLC

VARIABLES file, pc, df, sel, out, calls

vars == <<file, pc, df, sel, out, calls>>

----------------------------------------------------------------------------
(* Bounds of the model *)

\* rows of a source file of the dashboard specification
MaxRows == 3
\* rows of a source file of the preparation specification, and of the
\* specification of invocations in flight at once
PrepRows == 2
\* invocations of the callback in flight at once
Invocations == 2

----------------------------------------------------------------------------
(* Cells *)

NaN == [k |-> "nan", n |-> 0, s |-> <<>>]
Num(x) == [k |-> "num", n |-> x, s |-> <<>>]
Str(x) == [k |-> "str", n |-> 0, s |-> x]
Bool(b) == [k |-> "bool", n |-> IF b THEN 1 ELSE 0, s |-> <<>>]

\* the characters the model's texts are written in, in code point order
Alphabet ==
    <<" ", "-", ".", "0", "1", "2", "3", "4", "5", "6", "7", "8", "9",
      "A", "B", "C", "D", "E", "F", "G", "H", "I", "J", "K", "L", "M",
      "N", "O", "P", "Q", "R", "S", "T", "U", "V", "W", "X", "Y", "Z",
      "_", "a", "b", "c", "d", "e", "f", "g", "h", "i", "j", "k", "l", "m",
      "n", "o", "p", "q", "r", "s", "t", "u", "v", "w", "x", "y", "z">>

\* position of a character in the code point order
CharCode(c) == CHOOSE i \in 1..Len(Alphabet) : Alphabet[i] = c

Digits == <<"0", "1", "2", "3", "4", "5", "6", "7", "8", "9">>

IsDigit(c) == \E i \in 1..10 : Digits[i] = c

DigitValue(c) == (CHOOSE i \in 1..10 : Digits[i] = c) - 1

\* Python's str < str: lexicographic on code points
RECURSIVE StrLess(_, _)
StrLess(a, b) ==
    IF b = <<>> THEN FALSE
    ELSE IF a = <<>> THEN TRUE
    ELSE IF Head(a) = Head(b) THEN StrLess(Tail(a), Tail(b))
    ELSE CharCode(Head(a)) < CharCode(Head(b))

\* str.lstrip() / str.rstrip() / str.strip() on whitespace
RECURSIVE lstrip(_)
lstrip(s) == IF s # <<>> /\ Head(s) = " " THEN lstrip(Tail(s)) ELSE s

RECURSIVE rstrip(_)
rstrip(s) ==
    IF s # <<>> /\ s[Len(s)] = " " THEN rstrip(SubSeq(s, 1, Len(s) - 1)) ELSE s

strip(s) == lstrip(rstrip(s))

\* str(n) of a Python int
RECURSIVE NatToStr(_)
NatToStr(n) ==
    IF n < 10 THEN <<Digits[n + 1]>>
    ELSE NatToStr(n \div 10) \o <<Digits[(n % 10) + 1]>>

IntToStr(n) == IF n < 0 THEN <<"-">> \o NatToStr(0 - n) ELSE NatToStr(n)

\* the value of a string of digits
RECURSIVE DigitsToNat(_)
DigitsToNat(s) ==
    IF s = <<>> THEN 0
    ELSE 10 * DigitsToNat(SubSeq(s, 1, Len(s) - 1)) + DigitValue(s[Len(s)])

AllDigits(s) == s # <<>> /\ \A i \in 1..Len(s) : IsDigit(s[i])

\* Series.astype(str) on one cell: NaN becomes the text 'nan'
astype_str(c) ==
    CASE c.k = "nan" -> Str(<<"n", "a", "n">>)
      [] c.k = "num" -> Str(IntToStr(c.n))
      [] c.k = "bool" -> Str(IF c.n = 1 THEN <<"T", "r", "u", "e">>
                                        ELSE <<"F", "a", "l", "s", "e">>)
      [] OTHER -> c

\* Series.str.strip() on one cell
str_strip(c) == IF c.k = "str" THEN Str(strip(c.s)) ELSE NaN

\* pd.to_numeric(..., errors='coerce') on one cell: a number stays, the text
\* of an integer (surrounding blanks and a sign allowed) is parsed, anything
\* else becomes NaN
to_numeric(c) ==
    CASE c.k = "num" -> c
      [] c.k = "bool" -> Num(c.n)
      [] c.k = "str" ->
            LET t == strip(c.s)
            IN  IF AllDigits(t) THEN Num(DigitsToNat(t))
                ELSE IF t # <<>> /\ Head(t) = "-" /\ AllDigits(Tail(t))
                     THEN Num(0 - DigitsToNat(Tail(t)))
                ELSE NaN
      [] OTHER -> NaN

\* Series.fillna(v) on one cell
fillna(c, v) == IF c.k = "nan" THEN v ELSE c

\* Series * m on one numeric cell
times(c, m) == IF c.k = "num" THEN Num(c.n * m) ELSE c

----------------------------------------------------------------------------
(* Tables *)

EmptyTable == [cols |-> {}, rows |-> <<>>]

\* df[name] = column, a sequence of one cell per row: the column is added
\* or overwritten
with_column(t, name, column) ==
    [cols |-> t.cols \cup {name},
     rows |-> [i \in 1..Len(t.rows) |->
                 [c \in t.cols \cup {name} |->
                     IF c = name THEN column[i] ELSE t.rows[i][c]]]]

\* pd.DataFrame(d) of a dict of equally long columns
DataFrame(d) ==
    [cols |-> DOMAIN d,
     rows |-> [i \in 1..Len(d.CaseNumber) |-> [c \in DOMAIN d |-> d[c][i]]]]

\* the columns of the table of create_sample_data, one sequence per column
sample_data ==
    [ CaseNumber |->
         << Str(<<"S", "A", "M", "P", "L", "E", "0", "0", "1">>),
            Str(<<"S", "A", "M", "P", "L", "E", "0", "0", "2">>),
            Str(<<"S", "A", "M", "P", "L", "E", "0", "0", "3">>),
            Str(<<"S", "A", "M", "P", "L", "E", "0", "0", "4">>),
            Str(<<"S", "A", "M", "P", "L", "E", "0", "0", "5">>) >>,
      Judge_Full_Name |->
         << Str(<<"J", "o", "h", "n", " ", "S", "m", "i", "t", "h">>),
            Str(<<"M", "a", "r", "y", " ", "J", "o", "h", "n", "s", "o", "n">>),
            Str(<<"J", "o", "h", "n", " ", "S", "m", "i", "t", "h">>),
            Str(<<"R", "o", "b", "e", "r", "t", " ", "B", "r", "o", "w", "n">>),
            Str(<<"M", "a", "r", "y", " ", "J", "o", "h", "n", "s", "o", "n">>) >>,
      ChargeOffenseDescription |->
         << Str(<<"P", "O", "S", "S", "E", "S", "S", "I", "O", "N", " ", "O", "F", " ", "F", "I", "R", "E", "A", "R", "M", " ", "B", "Y", " ", "C", "O", "N", "V", "I", "C", "T", "E", "D", " ", "F", "E", "L", "O", "N">>),
            Str(<<"B", "A", "T", "T", "E", "R", "Y", " ", "O", "N", " ", "L", "A", "W", " ", "E", "N", "F", "O", "R", "C", "E", "M", "E", "N", "T", " ", "O", "F", "F", "I", "C", "E", "R">>),
            Str(<<"D", "R", "I", "V", "I", "N", "G", " ", "U", "N", "D", "E", "R", " ", "T", "H", "E", " ", "I", "N", "F", "L", "U", "E", "N", "C", "E">>),
            Str(<<"P", "O", "S", "S", "E", "S", "S", "I", "O", "N", " ", "O", "F", " ", "C", "O", "N", "T", "R", "O", "L", "L", "E", "D", " ", "S", "U", "B", "S", "T", "A", "N", "C", "E">>),
            Str(<<"T", "H", "E", "F", "T", " ", "O", "F", " ", "M", "O", "T", "O", "R", " ", "V", "E", "H", "I", "C", "L", "E">>) >>,
      Statute |->
         << Str(<<"7", "9", "0", ".", "2", "3">>),
            Str(<<"7", "8", "4", ".", "0", "7">>),
            Str(<<"3", "1", "6", ".", "1", "9", "3">>),
            Str(<<"8", "9", "3", ".", "1", "3">>),
            Str(<<"8", "1", "2", ".", "0", "1", "4">>) >>,
      Statute_Description |->
         << Str(<<"F", "i", "r", "e", "a", "r", "m", " ", "V", "i", "o", "l", "a", "t", "i", "o", "n", "s">>),
            Str(<<"B", "a", "t", "t", "e", "r", "y">>),
            Str(<<"D", "U", "I">>),
            Str(<<"D", "r", "u", "g", " ", "P", "o", "s", "s", "e", "s", "s", "i", "o", "n">>),
            Str(<<"T", "h", "e", "f", "t">>) >>,
      Race_Tier_1 |->
         << Str(<<"B">>),
            Str(<<"W">>),
            Str(<<"H">>),
            Str(<<"B">>),
            Str(<<"W">>) >>,
      Gender |->
         << Str(<<"M">>),
            Str(<<"F">>),
            Str(<<"M">>),
            Str(<<"F">>),
            Str(<<"M">>) >>,
      Jail_Days |->
         << Num(365),
            Num(0),
            Num(30),
            Num(180),
            Num(0) >>,
      Probation_Days_Clean |->
         << Num(0),
            Num(730),
            Num(365),
            Num(365),
            Num(1095) >>,
      CommunityControl_Days |->
         << Num(0),
            Num(0),
            Num(0),
            Num(180),
            Num(0) >>,
      CommunityService_Hours |->
         << Num(0),
            Num(100),
            Num(50),
            Num(40),
            Num(200) >>,
      DispositionDescription |->
         << Str(<<"A", "d", "j", "u", "d", "i", "c", "a", "t", "e", "d", " ", "G", "u", "i", "l", "t", "y">>),
            Str(<<"A", "d", "j", "u", "d", "i", "c", "a", "t", "e", "d", " ", "G", "u", "i", "l", "t", "y">>),
            Str(<<"A", "d", "j", "u", "d", "i", "c", "a", "t", "e", "d", " ", "G", "u", "i", "l", "t", "y">>),
            Str(<<"A", "d", "j", "u", "d", "i", "c", "a", "t", "e", "d", " ", "G", "u", "i", "l", "t", "y">>),
            Str(<<"N", "o", "l", "l", "e", " ", "P", "r", "o", "s", "e", "q", "u", "i">>) >>,
      Has_Sentence |->
         << Bool(TRUE),
            Bool(TRUE),
            Bool(TRUE),
            Bool(TRUE),
            Bool(TRUE) >> ]

create_sample_data == DataFrame(sample_data)

----------------------------------------------------------------------------
(* load_data: the preparation proper, lines 60-123 *)

text_columns ==
    {"Judge", "Judge_First_Name", "Judge_Last_Name", "ChargeOffenseDescription",
     "Statute", "Statute_Description", "DispositionDescription", "Race_Tier_1",
     "Gender", "ConfinementType"}

\* lines 64-70: every text column present is cast to str and stripped
clean_text_columns(t) ==
    [cols |-> t.cols,
     rows |-> [i \in 1..Len(t.rows) |->
                 [c \in t.cols |->
                     IF c \in text_columns
                     THEN str_strip(astype_str(t.rows[i][c]))
                     ELSE t.rows[i][c]]]]

DaysPerMonth == 30
DaysPerYear == 365

\* pd.to_numeric(df[col], errors='coerce').fillna(0) on the cell of one row
coerce(r, col) == fillna(to_numeric(r[col]), Num(0))

\* lines 74-77
Jail_Days(cols, r) ==
    IF "MaxCnfmnt_Days" \in cols THEN coerce(r, "MaxCnfmnt_Days") ELSE Num(0)

\* a variant that lets a populated months column win over the days column
Probation_Days_Clean_months_first(cols, r) ==
    IF "Probation_Mths" \in cols
    THEN times(coerce(r, "Probation_Mths"), DaysPerMonth)
    ELSE IF "Probation_Days" \in cols THEN coerce(r, "Probation_Days")
    ELSE IF "Probation_Yrs" \in cols
         THEN times(coerce(r, "Probation_Yrs"), DaysPerYear)
    ELSE Num(0)

\* lines 80-87
Probation_Days_Clean(cols, r) ==
    IF "Probation_Days" \in cols THEN coerce(r, "Probation_Days")
    ELSE IF "Probation_Mths" \in cols
         THEN times(coerce(r, "Probation_Mths"), DaysPerMonth)
    ELSE IF "Probation_Yrs" \in cols
         THEN times(coerce(r, "Probation_Yrs"), DaysPerYear)
    ELSE Num(0)

\* lines 90-97
CommunityControl_Days(cols, r) ==
    IF "ComCntrl_Days" \in cols THEN coerce(r, "ComCntrl_Days")
    ELSE IF "ComCntrl_Mths" \in cols
         THEN times(coerce(r, "ComCntrl_Mths"), DaysPerMonth)
    ELSE IF "ComCntrl_Yrs" \in cols
         THEN times(coerce(r, "ComCntrl_Yrs"), DaysPerYear)
    ELSE Num(0)

\* lines 100-103
CommunityService_Hours(cols, r) ==
    IF "CommunityService" \in cols THEN coerce(r, "CommunityService") ELSE Num(0)

\* a variant that leaves the community service hours out of the flag
Has_Sentence_without_service(r) ==
    Bool(\/ r["Jail_Days"].n > 0
         \/ r["Probation_Days_Clean"].n > 0
         \/ r["CommunityControl_Days"].n > 0)

\* lines 106-111, on a row that carries the four derived fields
Has_Sentence(r) ==
    Bool(\/ r["Jail_Days"].n > 0
         \/ r["Probation_Days_Clean"].n > 0
         \/ r["CommunityControl_Days"].n > 0
         \/ r["CommunityService_Hours"].n > 0)

NumericFields ==
    {"Jail_Days", "Probation_Days_Clean", "CommunityControl_Days",
     "CommunityService_Hours"}

name_parts == {"Judge_First_Name", "Judge_Middle_Intial", "Judge_Last_Name"}

\* line 115 raises TypeError when str + non-str is evaluated: the middle
\* initial is neither cast to str nor stripped, only its NaN are filled
concat_raises(t) ==
    /\ name_parts \subseteq t.cols
    /\ \E i \in 1..Len(t.rows) :
          fillna(t.rows[i]["Judge_Middle_Intial"], Str(<<>>)).k # "str"

\* lines 114-120 on one row
Judge_Full_Name(cols, r) ==
    IF name_parts \subseteq cols
    THEN Str(strip(r["Judge_First_Name"].s \o <<" ">>
                   \o fillna(r["Judge_Middle_Intial"], Str(<<>>)).s \o <<" ">>
                   \o r["Judge_Last_Name"].s))
    ELSE IF "Judge" \in cols THEN r["Judge"]
    ELSE Str(<<"U", "n", "k", "n", "o", "w", "n">>)

\* line 123: .replace(['nan', 'NaN', ''], 'Unknown'), whole-value matches only
replace_unknown(c) ==
    IF c \in {Str(<<"n", "a", "n">>), Str(<<"N", "a", "N">>), Str(<<>>)}
    THEN Str(<<"U", "n", "k", "n", "o", "w", "n">>)
    ELSE c

\* lines 74-77, 80-87, 90-97, 100-103: the four derived columns
derive_jail(t) ==
    with_column(t, "Jail_Days",
                [i \in 1..Len(t.rows) |-> Jail_Days(t.cols, t.rows[i])])

derive_probation(t) ==
    with_column(t, "Probation_Days_Clean",
                [i \in 1..Len(t.rows) |-> Probation_Days_Clean(t.cols, t.rows[i])])

derive_community_control(t) ==
    with_column(t, "CommunityControl_Days",
                [i \in 1..Len(t.rows) |-> CommunityControl_Days(t.cols, t.rows[i])])

derive_community_service(t) ==
    with_column(t, "CommunityService_Hours",
                [i \in 1..Len(t.rows) |-> CommunityService_Hours(t.cols, t.rows[i])])

\* lines 106-111
derive_has_sentence(t) ==
    with_column(t, "Has_Sentence",
                [i \in 1..Len(t.rows) |-> Has_Sentence(t.rows[i])])

\* lines 114-120
derive_judge(t) ==
    with_column(t, "Judge_Full_Name",
                [i \in 1..Len(t.rows) |-> Judge_Full_Name(t.cols, t.rows[i])])

\* line 123
clean_judge(t) ==
    with_column(t, "Judge_Full_Name",
                [i \in 1..Len(t.rows) |-> replace_unknown(t.rows[i]["Judge_Full_Name"])])

\* lines 60-126 on the table read from the file
prepare(raw) ==
    clean_judge(derive_judge(derive_has_sentence(derive_community_service(
        derive_community_control(derive_probation(derive_jail(
            clean_text_columns(raw))))))))

\* a variant without the check of lines 43-45 for a file that has no row
load_data_without_empty_check(f) ==
    IF ~f.exists THEN create_sample_data
    ELSE IF ~f.readable THEN create_sample_data
    ELSE IF concat_raises(clean_text_columns([cols |-> f.cols, rows |-> f.rows]))
         THEN create_sample_data
    ELSE prepare([cols |-> f.cols, rows |-> f.rows])

\* load_data, lines 24-130: the fixture when the file is missing, cannot be
\* read, has no row, or a step of the preparation raises
load_data(f) ==
    IF ~f.exists THEN create_sample_data
    ELSE IF ~f.readable THEN create_sample_data
    ELSE IF Len(f.rows) = 0 THEN create_sample_data
    ELSE IF concat_raises(clean_text_columns([cols |-> f.cols, rows |-> f.rows]))
         THEN create_sample_data
    ELSE prepare([cols |-> f.cols, rows |-> f.rows])

----------------------------------------------------------------------------
(* update_dashboard, lines 375-569 *)

All == <<"a", "l", "l">>
with_sentence == <<"w", "i", "t", "h", "_", "s", "e", "n", "t", "e", "n", "c", "e">>
no_sentence == <<"n", "o", "_", "s", "e", "n", "t", "e", "n", "c", "e">>

\* an exception that left a step, in the place of the table the step yields
KeyError(name) == [cols |-> {}, rows |-> <<>>, raised |-> "KeyError", key |-> name]

IsRaised(t) == "raised" \in DOMAIN t

\* t[t[col] == v]: the rows whose cell equals v, in the order of t; KeyError
\* when t has no such column
where_equal(t, col, v) ==
    IF IsRaised(t) THEN t
    ELSE IF col \notin t.cols THEN KeyError(col)
    ELSE [cols |-> t.cols, rows |-> SelectSeq(t.rows, LAMBDA r : r[col] = v)]

\* lines 383-384
filter_judge(t, j) ==
    IF j # All THEN where_equal(t, "Judge_Full_Name", Str(j)) ELSE t

\* a variant that filters the whole table df, not what the judge filter left
filter_charge_of_df(t, c) ==
    IF c # All THEN where_equal(df, "ChargeOffenseDescription", Str(c)) ELSE t

\* lines 387-388
filter_charge(t, c) ==
    IF c # All THEN where_equal(t, "ChargeOffenseDescription", Str(c)) ELSE t

\* a variant without the branch for "no_sentence"
filter_sentence_with_only(t, s) ==
    IF s = with_sentence THEN where_equal(t, "Has_Sentence", Bool(TRUE)) ELSE t

\* lines 391-394
filter_sentence(t, s) ==
    IF s = with_sentence THEN where_equal(t, "Has_Sentence", Bool(TRUE))
    ELSE IF s = no_sentence THEN where_equal(t, "Has_Sentence", Bool(FALSE))
    ELSE t

\* lines 380-394: the judge, then the charge, then the sentence filter
filtered(t, j, c, s) == filter_sentence(filter_charge(filter_judge(t, j), c), s)

RECURSIVE SumOf(_, _)
SumOf(rows, col) ==
    IF rows = <<>> THEN 0 ELSE rows[1][col].n + SumOf(Tail(rows), col)

\* num / den in tenths, rounded half to even: f"{x:.1f}" and .round(1) of a
\* quotient that a float holds exactly at the tie (a multiple of 1/4)
Tenths(num, den) ==
    LET q == (10 * num) \div den
        r == (10 * num) % den
    IN  IF 2 * r < den THEN q
        ELSE IF 2 * r > den THEN q + 1
        ELSE IF q % 2 = 0 THEN q ELSE q + 1

\* Series.mean() of a column, in tenths
mean(rows, col) == Tenths(SumOf(rows, col), Len(rows))

\* t[t[col] > 0], the rows of a distribution
positive(rows, col) == SelectSeq(rows, LAMBDA r : r[col].n > 0)

\* a variant whose means count the rows without a sentence as zeros
summary_stats_mean_of_all(rows) ==
    LET sentenced == SelectSeq(rows, LAMBDA r : r["Has_Sentence"] = Bool(TRUE))
    IN  [cases_in_view |-> Len(rows),
         with_sentences |->
            IF Len(rows) > 0
            THEN [text |-> "Cases with Sentences", count |-> Len(sentenced),
                  tenths |-> Tenths(Len(sentenced) * 100, Len(rows))]
            ELSE [text |-> "No data", count |-> 0, tenths |-> 0],
         average_jail |->
            IF Len(positive(rows, "Jail_Days")) > 0
            THEN [text |-> "Average Jail Time", tenths |-> mean(rows, "Jail_Days")]
            ELSE [text |-> "No jail sentences", tenths |-> 0],
         average_probation |->
            IF Len(positive(rows, "Probation_Days_Clean")) > 0
            THEN [text |-> "Average Probation",
                  tenths |-> mean(rows, "Probation_Days_Clean")]
            ELSE [text |-> "No probation sentences", tenths |-> 0]]

\* lines 397-407
summary_stats(rows) ==
    LET sentenced == SelectSeq(rows, LAMBDA r : r["Has_Sentence"] = Bool(TRUE))
        jailed == positive(rows, "Jail_Days")
        on_probation == positive(rows, "Probation_Days_Clean")
    IN  [cases_in_view |-> Len(rows),
         with_sentences |->
            IF Len(rows) > 0
            THEN [text |-> "Cases with Sentences", count |-> Len(sentenced),
                  tenths |-> Tenths(Len(sentenced) * 100, Len(rows))]
            ELSE [text |-> "No data", count |-> 0, tenths |-> 0],
         average_jail |->
            IF Len(jailed) > 0
            THEN [text |-> "Average Jail Time", tenths |-> mean(jailed, "Jail_Days")]
            ELSE [text |-> "No jail sentences", tenths |-> 0],
         average_probation |->
            IF Len(on_probation) > 0
            THEN [text |-> "Average Probation",
                  tenths |-> mean(on_probation, "Probation_Days_Clean")]
            ELSE [text |-> "No probation sentences", tenths |-> 0]]

JailBins == 30
ProbationBins == 30
ComCntrlBins == 20
ServiceBins == 20

\* lines 410-487: the histogram of the positive values of a column, or the
\* annotation when there is none
distribution(rows, col, bins, none) ==
    LET data == positive(rows, col)
    IN  IF Len(data) > 0
        THEN [kind |-> "histogram", x |-> [i \in 1..Len(data) |-> data[i][col].n],
              nbinsx |-> bins, n |-> Len(data), text |-> ""]
        ELSE [kind |-> "annotation", x |-> <<>>, nbinsx |-> 0, n |-> 0, text |-> none]

\* the number of groups the two breakdowns keep, and of judges the third chart keeps
TopGroups == 15
TopJudges == 20

\* the non-null values of a column, each once
unique(rows, col) == {rows[i][col] : i \in {k \in 1..Len(rows) : rows[k][col].k # "nan"}}

\* the keys of a groupby: ascending, null keys dropped
RECURSIVE ascending(_)
ascending(S) ==
    IF S = {} THEN <<>>
    ELSE LET m == CHOOSE x \in S : \A y \in S \ {x} : StrLess(x.s, y.s)
         IN  <<m>> \o ascending(S \ {m})

\* the values of a column in the order of their first appearance
RECURSIVE appearance(_, _)
appearance(rows, col) ==
    IF rows = <<>> THEN <<>>
    ELSE LET rest == appearance(SubSeq(rows, 1, Len(rows) - 1), col)
             v == rows[Len(rows)][col]
         IN  IF v.k = "nan" \/ \E i \in 1..Len(rest) : rest[i] = v THEN rest
             ELSE Append(rest, v)

\* sort_values('CaseNumber', ascending=False): by count, largest first; groups
\* of equal count keep their order, as the sort of a short array leaves them
RECURSIVE sort_by_count(_)
sort_by_count(g) ==
    IF g = <<>> THEN <<>>
    ELSE LET i == CHOOSE i \in 1..Len(g) :
                    /\ \A j \in 1..Len(g) : g[j].CaseNumber <= g[i].CaseNumber
                    /\ \A j \in 1..(i - 1) : g[j].CaseNumber < g[i].CaseNumber
         IN  <<g[i]>> \o sort_by_count(SubSeq(g, 1, i - 1) \o SubSeq(g, i + 1, Len(g)))

\* .head(n)
head(s, n) == SubSeq(s, 1, IF Len(s) < n THEN Len(s) ELSE n)

\* Series.count(): the cells that are not null
count(rows, col) == Len(SelectSeq(rows, LAMBDA r : r[col].k # "nan"))

\* lines 492-499 and 516-523: groupby(by).agg(...).round(1).reset_index(),
\* sorted by the count and cut to the first 15; KeyError when the table lacks
\* the grouping column or the CaseNumber column
group_summary(t, by) ==
    IF by \notin t.cols THEN KeyError(by)
    ELSE IF "CaseNumber" \notin t.cols THEN KeyError("CaseNumber")
    ELSE LET keys == ascending(unique(t.rows, by))
             group(k) == SelectSeq(t.rows, LAMBDA r : r[by] = k)
             groups == [i \in 1..Len(keys) |->
                          [key |-> keys[i].s,
                           Jail_Days |-> mean(group(keys[i]), "Jail_Days"),
                           Probation_Days_Clean |->
                               mean(group(keys[i]), "Probation_Days_Clean"),
                           CommunityControl_Days |->
                               mean(group(keys[i]), "CommunityControl_Days"),
                           CommunityService_Hours |->
                               mean(group(keys[i]), "CommunityService_Hours"),
                           CaseNumber |-> count(group(keys[i]), "CaseNumber")]]
         IN  [cols |-> {by} \cup NumericFields \cup {"CaseNumber"},
              rows |-> head(sort_by_count(groups), TopGroups)]

\* line 541: value_counts().head(20), the judges by their number of rows
judge_cases(rows) ==
    LET names == appearance(rows, "Judge_Full_Name")
        counts == [i \in 1..Len(names) |->
                     [key |-> names[i].s,
                      CaseNumber |-> Len(SelectSeq(rows,
                                     LAMBDA r : r["Judge_Full_Name"] = names[i]))]]
    IN  head(sort_by_count(counts), TopJudges)

TitleChars == 50

\* a variant whose two breakdowns do not test that the table has rows
comparison_fig_unguarded(t, j, c) ==
    IF j # All
    THEN LET charge_summary == group_summary(t, "ChargeOffenseDescription")
         IN  IF IsRaised(charge_summary) THEN charge_summary
             ELSE [mode |-> "by_charge", groups |-> charge_summary.rows,
                   title |-> j, text |-> ""]
    ELSE IF c # All
    THEN LET judge_summary == group_summary(t, "Judge_Full_Name")
         IN  IF IsRaised(judge_summary) THEN judge_summary
             ELSE [mode |-> "by_judge", groups |-> judge_summary.rows,
                   title |-> head(c, TitleChars), text |-> ""]
    ELSE IF Len(t.rows) > 0
    THEN [mode |-> "top_judges", groups |-> judge_cases(t.rows),
          title |-> <<>>, text |-> ""]
    ELSE [mode |-> "no_data", groups |-> <<>>, title |-> <<>>,
          text |-> "No data to display"]

\* a variant that tests the charge selection before the judge selection
comparison_fig_charge_first(t, j, c) ==
    IF c # All /\ Len(t.rows) > 0
    THEN LET judge_summary == group_summary(t, "Judge_Full_Name")
         IN  IF IsRaised(judge_summary) THEN judge_summary
             ELSE [mode |-> "by_judge", groups |-> judge_summary.rows,
                   title |-> head(c, TitleChars), text |-> ""]
    ELSE IF j # All /\ Len(t.rows) > 0
    THEN LET charge_summary == group_summary(t, "ChargeOffenseDescription")
         IN  IF IsRaised(charge_summary) THEN charge_summary
             ELSE [mode |-> "by_charge", groups |-> charge_summary.rows,
                   title |-> j, text |-> ""]
    ELSE IF Len(t.rows) > 0
    THEN [mode |-> "top_judges", groups |-> judge_cases(t.rows),
          title |-> <<>>, text |-> ""]
    ELSE [mode |-> "no_data", groups |-> <<>>, title |-> <<>>,
          text |-> "No data to display"]

\* lines 489-554: the branch of the comparison chart and what it shows
comparison_fig(t, j, c) ==
    IF j # All /\ Len(t.rows) > 0
    THEN LET charge_summary == group_summary(t, "ChargeOffenseDescription")
         IN  IF IsRaised(charge_summary) THEN charge_summary
             ELSE [mode |-> "by_charge", groups |-> charge_summary.rows,
                   title |-> j, text |-> ""]
    ELSE IF c # All /\ Len(t.rows) > 0
    THEN LET judge_summary == group_summary(t, "Judge_Full_Name")
         IN  IF IsRaised(judge_summary) THEN judge_summary
             ELSE [mode |-> "by_judge", groups |-> judge_summary.rows,
                   title |-> head(c, TitleChars), text |-> ""]
    ELSE IF Len(t.rows) > 0
    THEN [mode |-> "top_judges", groups |-> judge_cases(t.rows),
          title |-> <<>>, text |-> ""]
    ELSE [mode |-> "no_data", groups |-> <<>>, title |-> <<>>,
          text |-> "No data to display"]

table_columns ==
    {"Judge_Full_Name", "ChargeOffenseDescription", "Statute", "Jail_Days",
     "Probation_Days_Clean", "CommunityControl_Days", "CommunityService_Hours",
     "Race_Tier_1", "Has_Sentence"}

\* lines 557-567: the records of the table, the numbers (whole already) rounded
table_data(t) ==
    LET available_columns == table_columns \cap t.cols
    IN  IF available_columns # {} /\ Len(t.rows) > 0
        THEN [i \in 1..Len(t.rows) |-> [c \in available_columns |-> t.rows[i][c]]]
        ELSE <<>>

\* lines 396-569: the seven outputs built on the filtered table, which they
\* carry along, or the exception of the comparison chart
outputs(filtered_df, j, c) ==
    LET comparison == comparison_fig(filtered_df, j, c)
    IN  IF IsRaised(comparison)
        THEN [status |-> "raised", error |-> comparison.raised,
              at |-> "comparison", filtered_df |-> filtered_df]
        ELSE [status |-> "returned",
              filtered_df |-> filtered_df,
              summary_stats |-> summary_stats(filtered_df.rows),
              jail_fig |->
                  distribution(filtered_df.rows, "Jail_Days", JailBins,
                      "No jail sentences in filtered data"),
              probation_fig |->
                  distribution(filtered_df.rows, "Probation_Days_Clean",
                      ProbationBins,
                      "No probation sentences in filtered data"),
              cc_fig |->
                  distribution(filtered_df.rows, "CommunityControl_Days",
                      ComCntrlBins,
                      "No community control sentences in filtered data"),
              cs_fig |->
                  distribution(filtered_df.rows, "CommunityService_Hours",
                      ServiceBins,
                      "No community service sentences in filtered data"),
              comparison_fig |-> comparison,
              table_data |-> table_data(filtered_df)]

\* the exception of a filter, as it leaves the callback
raised_in_filter(t) == [status |-> "raised", error |-> t.raised, at |-> "filter"]

\* update_dashboard: the seven outputs and the filtered table they are built
\* on, or the exception that leaves the callback
update_dashboard(t, j, c, s) ==
    LET filtered_df == filtered(t, j, c, s)
    IN  IF IsRaised(filtered_df) THEN raised_in_filter(filtered_df)
        ELSE outputs(filtered_df, j, c)

\* the values a dropdown offers for a column, lines 171-179
safe_get_unique(t, column_name) ==
    IF column_name \in t.cols
    THEN {v.s : v \in {u \in unique(t.rows, column_name) :
                          u.k = "str" /\ u.s # <<>> /\ u.s # <<"n", "a", "n">>}}
    ELSE {}

----------------------------------------------------------------------------
(* Source files *)

\* texts used in the cells of the source files
T_x == <<"x">>
T_12 == <<"1", "2">>
T_blank == <<" ">>
T_nan_padded == <<" ", "n", "a", "n", " ">>
T_A == <<"A">>
T_A_padded == <<" ", "A", " ">>
T_B == <<"B">>
T_J == <<"J">>
T_Q == <<"Q">>
T_S == <<"S">>
T_X == <<"X">>
T_Y == <<"Y">>
T_C1 == <<"C", "1">>

NoFile == [exists |-> FALSE, readable |-> FALSE, cols |-> {}, rows |-> <<>>]

UnreadableFile == [exists |-> TRUE, readable |-> FALSE, cols |-> {}, rows |-> <<>>]

\* the rows over the columns C whose cells are drawn from dom[c]
RowsOver(dom, C) ==
    {r \in [C -> UNION {dom[c] : c \in C}] : \A c \in C : r[c] \in dom[c]}

\* f is a readable file of n rows whose columns are those of dom, any of
\* the optional ones left out, at least one kept
IsFileOf(f, dom, optional, n) ==
    \E O \in SUBSET optional :
        /\ DOMAIN dom \ O # {}
        /\ \E rs \in [1..n -> RowsOver(dom, DOMAIN dom \ O)] :
              f = [exists |-> TRUE, readable |-> TRUE,
                   cols |-> DOMAIN dom \ O, rows |-> rs]

\* the cells of the duration columns: blank, text, negative, zero, positive
SentenceCells ==
    [MaxCnfmnt_Days |-> {NaN, Str(T_x), Num(-1), Num(0), Num(1)},
     CommunityService |-> {Str(T_x), Str(T_12), Num(-1), Num(0)}]

ProbationCells ==
    [Probation_Days |-> {NaN, Num(0), Num(1)},
     Probation_Mths |-> {NaN, Num(2)},
     Probation_Yrs |-> {Str(T_x), Num(1)}]

ComCntrlCells ==
    [ComCntrl_Days |-> {Str(T_x), Num(-1), Num(3)},
     ComCntrl_Mths |-> {NaN, Num(1)},
     ComCntrl_Yrs |-> {NaN, Num(2)}]

UnitCells ==
    [Probation_Days |-> {NaN, Num(0), Num(1)},
     Probation_Mths |-> {NaN, Num(2)},
     ComCntrl_Days |-> {Num(-1), Num(3)},
     ComCntrl_Mths |-> {NaN, Num(1)}]

\* the cells of the judge columns: blank, white space, a padded 'nan', names,
\* and a number as middle initial
JudgeCells ==
    [Judge |-> {NaN, Str(T_blank), Str(T_nan_padded), Str(T_A_padded)}]

NamePartCells ==
    [Judge_First_Name |-> {NaN, Str(T_J)},
     Judge_Middle_Intial |-> {NaN, Str(T_Q), Num(1)},
     Judge_Last_Name |-> {NaN, Str(T_S)}]

NameChoiceCells ==
    [Judge |-> {Str(T_A)},
     Judge_First_Name |-> {Str(T_blank), Str(T_J)},
     Judge_Middle_Intial |-> {NaN},
     Judge_Last_Name |-> {Str(T_blank), Str(T_S)},
     MaxCnfmnt_Days |-> {Num(1)}]

PrepFamilies ==
    {SentenceCells, ProbationCells, ComCntrlCells, UnitCells,
     JudgeCells, NamePartCells, NameChoiceCells}

\* a file that has a header and no row
EmptyFiles ==
    {[exists |-> TRUE, readable |-> TRUE, cols |-> C, rows |-> <<>>] :
        C \in {{"Judge"}, {"MaxCnfmnt_Days", "Judge"}}}

----------------------------------------------------------------------------
(* State machine *)

\* the source files of the dashboard specification: two judges and two
\* charges; jail and probation values for the means; optional columns absent
JudgeChargeCells ==
    [Judge |-> {Str(T_A), Str(T_B)},
     ChargeOffenseDescription |-> {Str(T_X), Str(T_Y)},
     MaxCnfmnt_Days |-> {Num(0), Num(4)},
     CaseNumber |-> {Str(T_C1)}]

MeanCells ==
    [Judge |-> {Str(T_A)},
     ChargeOffenseDescription |-> {Str(T_X)},
     MaxCnfmnt_Days |-> {Num(0), Num(1), Num(4)},
     Probation_Days |-> {Num(0), Num(3)},
     CaseNumber |-> {Str(T_C1)}]

OptionalCells ==
    [Judge |-> {Str(T_A), Str(T_B)},
     ChargeOffenseDescription |-> {Str(T_X)},
     MaxCnfmnt_Days |-> {Num(1)},
     CaseNumber |-> {Str(T_C1), NaN}]

OptionalColumns == {"ChargeOffenseDescription", "CaseNumber"}

NoSel == [judge |-> <<>>, charge |-> <<>>, sentence |-> <<>>]

NoOut == [status |-> "none"]

\* an invocation slot: its position, its three arguments, and its local
\* names filtered_df and the outputs
Idle == [pc |-> "idle", sel |-> NoSel, filtered_df |-> EmptyTable, out |-> NoOut]

NoCalls == [i \in 1..Invocations |-> Idle]

Start ==
    /\ pc = "start"
    /\ df = EmptyTable
    /\ sel = NoSel
    /\ out = NoOut
    /\ calls = NoCalls

InitPrep ==
    /\ \/ file \in {NoFile, UnreadableFile} \cup EmptyFiles
       \/ \E dom \in PrepFamilies, n \in 1..PrepRows :
             IsFileOf(file, dom, DOMAIN dom, n)
    /\ Start

Init ==
    /\ \/ file = NoFile
       \/ \E dom \in {JudgeChargeCells, MeanCells}, n \in 1..MaxRows :
             IsFileOf(file, dom, {}, n)
       \/ \E n \in 1..MaxRows : IsFileOf(file, OptionalCells, OptionalColumns, n)
    /\ Start

\* line 168: df = load_data(), once, at import
LoadData ==
    /\ pc = "start"
    /\ df' = load_data(file)
    /\ pc' = "ready"
    /\ UNCHANGED <<file, sel, out, calls>>

NoSuchJudge == <<"N", "o", "S", "u", "c", "h", "J", "u", "d", "g", "e">>
NoSuchCharge == <<"N", "o", "S", "u", "c", "h", "C", "h", "a", "r", "g", "e">>

\* the values the callback can be invoked with: those of the dropdowns
\* (lines 235-269) and a value that matches no row
JudgeChoices == {All, NoSuchJudge} \cup safe_get_unique(df, "Judge_Full_Name")
ChargeChoices == {All, NoSuchCharge} \cup safe_get_unique(df, "ChargeOffenseDescription")
SentenceChoices == {All, with_sentence, no_sentence}

\* lines 363-374: a change of a dropdown dispatches the callback with the
\* three current values
Dispatch ==
    /\ pc = "ready"
    /\ \E j \in JudgeChoices, c \in ChargeChoices, s \in SentenceChoices :
          sel' = [judge |-> j, charge |-> c, sentence |-> s]
    /\ pc' = "called"
    /\ UNCHANGED <<file, df, out, calls>>

\* a variant that declares df global and binds the filtered table to it
df_after_update_dashboard_rebound(t, j, c, s) ==
    IF IsRaised(filtered(t, j, c, s)) THEN t ELSE filtered(t, j, c, s)

\* the module's table after lines 375-569: the function does not declare df
\* global and assigns to its local names only; line 380 binds filtered_df to
\* a copy, every filter binds it to a new table, and the aggregations and
\* round() return new objects
df_after_update_dashboard(t, j, c, s) == t

\* lines 375-569: the callback runs to its return or to the exception
UpdateDashboard ==
    /\ pc = "called"
    /\ out' = update_dashboard(df, sel.judge, sel.charge, sel.sentence)
    /\ df' = df_after_update_dashboard(df, sel.judge, sel.charge, sel.sentence)
    /\ pc' = "returned"
    /\ UNCHANGED <<file, sel, calls>>

\* the outputs (or the error) go to the browser; the server keeps nothing of
\* the invocation but df
Respond ==
    /\ pc = "returned"
    /\ sel' = NoSel
    /\ out' = NoOut
    /\ pc' = "ready"
    /\ UNCHANGED <<file, df, calls>>

NextPrep == LoadData

SpecPrep == InitPrep /\ [][NextPrep]_vars

Next == LoadData \/ Dispatch \/ UpdateDashboard \/ Respond

Spec == Init /\ [][Next]_vars

----------------------------------------------------------------------------
(* Invocations in flight at once *)

\* the source files of the specification of concurrent invocations: two
\* judges, with or without the charge and the case number
CallCells ==
    [Judge |-> {Str(T_A), Str(T_B)},
     ChargeOffenseDescription |-> {Str(T_X)},
     MaxCnfmnt_Days |-> {Num(4)},
     CaseNumber |-> {Str(T_C1)}]

InitCalls ==
    /\ IsFileOf(file, CallCells, OptionalColumns, PrepRows)
    /\ Start

\* the selections the invocations arrive with
CallJudges == {All, T_A}
CallCharges == {All, T_X}

\* a variant whose filtered_df is one name of the module: what an invocation
\* binds to it, every invocation reads
bind_filtered_df_global(cs, i, t) ==
    [k \in DOMAIN cs |-> [cs[k] EXCEPT !.filtered_df = t]]

\* filtered_df = ...: the name is local to the invocation that binds it
bind_filtered_df(cs, i, t) == [cs EXCEPT ![i].filtered_df = t]

\* lines 363-375: a request enters update_dashboard with its three values,
\* in a thread of its own
Call(i) ==
    /\ pc = "ready"
    /\ calls[i].pc = "idle"
    /\ \E j \in CallJudges, c \in CallCharges :
          calls' = [calls EXCEPT ![i].pc = "called",
                                 ![i].sel = [judge |-> j, charge |-> c,
                                             sentence |-> All]]
    /\ UNCHANGED <<file, pc, df, sel, out>>

\* line 380: filtered_df = df.copy(), the one statement that reads df
Copy(i) ==
    /\ calls[i].pc = "called"
    /\ calls' = [bind_filtered_df(calls, i, df) EXCEPT ![i].pc = "copied"]
    /\ UNCHANGED <<file, pc, df, sel, out>>

\* lines 382-394: the three filters, each on what filtered_df is bound to;
\* the KeyError of a filter ends the invocation
Filter(i) ==
    /\ calls[i].pc = "copied"
    /\ LET t == filtered(calls[i].filtered_df, calls[i].sel.judge,
                         calls[i].sel.charge, calls[i].sel.sentence)
       IN  calls' =
              IF IsRaised(t)
              THEN [calls EXCEPT ![i].pc = "returned", ![i].out = raised_in_filter(t)]
              ELSE [bind_filtered_df(calls, i, t) EXCEPT ![i].pc = "filtered"]
    /\ UNCHANGED <<file, pc, df, sel, out>>

\* lines 396-569: the outputs, built on what filtered_df is bound to and on
\* the arguments
Outputs(i) ==
    /\ calls[i].pc = "filtered"
    /\ calls' = [calls EXCEPT
                    ![i].pc = "returned",
                    ![i].out = outputs(calls[i].filtered_df, calls[i].sel.judge,
                                       calls[i].sel.charge)]
    /\ UNCHANGED <<file, pc, df, sel, out>>

\* the response is sent and the frame of the invocation is gone
Return(i) ==
    /\ calls[i].pc = "returned"
    /\ calls' = [calls EXCEPT ![i] = Idle]
    /\ UNCHANGED <<file, pc, df, sel, out>>

NextCalls ==
    \/ LoadData
    \/ \E i \in 1..Invocations : Call(i)
    \/ \E i \in 1..Invocations : Copy(i)
    \/ \E i \in 1..Invocations : Filter(i)
    \/ \E i \in 1..Invocations : Outputs(i)
    \/ \E i \in 1..Invocations : Return(i)

SpecCalls == InitCalls /\ [][NextCalls]_vars

----------------------------------------------------------------------------
(* Properties of the preparation, checked under SpecPrep *)

Unknown == <<"U", "n", "k", "n", "o", "w", "n">>

\* the table was prepared from the rows of the file, not substituted
FromSource ==
    /\ pc = "ready"
    /\ file.cols # {}
    /\ file.cols \subseteq df.cols
    /\ Len(df.rows) = Len(file.rows)

\* the number a source cell stands for: itself, the text of an integer as
\* that integer, 0 for a blank or any other text
SourceNumber(c) ==
    IF c.k = "num" THEN c.n
    ELSE IF c.k = "str" /\ AllDigits(c.s) THEN DigitsToNat(c.s)
    ELSE 0

\* C1: in every prepared table each record's Jail_Days, Probation_Days_Clean,
\* CommunityControl_Days and CommunityService_Hours is a number (never null)
\* and is >= 0, whatever the source cells hold.
C1_DerivedNonNegative ==
    pc = "ready" =>
        \A i \in 1..Len(df.rows) : \A c \in NumericFields :
            /\ c \in df.cols
            /\ df.rows[i][c].k = "num"
            /\ df.rows[i][c].n >= 0

\* C2: in every prepared table, from the source or the fixture, Has_Sentence
\* of a record is true exactly when one of its four numeric fields is > 0.
C2_HasSentenceIff ==
    pc = "ready" =>
        \A i \in 1..Len(df.rows) :
            /\ df.rows[i]["Has_Sentence"].k = "bool"
            /\ df.rows[i]["Has_Sentence"] = Bool(TRUE)
                  <=> \E c \in NumericFields : df.rows[i][c].n > 0

\* a table from the source with a record of four zeros, flagged false, and a
\* record whose only non-zero field is a 1, flagged true
C2_Witness ==
    /\ FromSource
    /\ \E i \in 1..Len(df.rows) :
          /\ \A c \in NumericFields : df.rows[i][c].n = 0
          /\ df.rows[i]["Has_Sentence"] = Bool(FALSE)
    /\ \E i \in 1..Len(df.rows) : \E c \in NumericFields :
          /\ df.rows[i][c].n = 1
          /\ \A d \in NumericFields \ {c} : df.rows[i][d].n = 0
          /\ df.rows[i]["Has_Sentence"] = Bool(TRUE)

\* the value the unit-priority rule gives a source row: the days column when
\* present, else months x 30, else years x 365, else 0
UnitDays(cols, r, days, mths, yrs) ==
    IF days \in cols THEN SourceNumber(r[days])
    ELSE IF mths \in cols THEN 30 * SourceNumber(r[mths])
    ELSE IF yrs \in cols THEN 365 * SourceNumber(r[yrs])
    ELSE 0

\* C3: probation and community control each honor one source unit, chosen by
\* column presence in the order days, months x 30, years x 365, else 0; a
\* present days column decides even where its cell is blank or zero; each
\* derivation reads its own three columns only.
C3_UnitPriority ==
    FromSource =>
        \A i \in 1..Len(df.rows) :
            /\ df.rows[i]["Probation_Days_Clean"] =
                  Num(UnitDays(file.cols, file.rows[i], "Probation_Days",
                               "Probation_Mths", "Probation_Yrs"))
            /\ df.rows[i]["CommunityControl_Days"] =
                  Num(UnitDays(file.cols, file.rows[i], "ComCntrl_Days",
                               "ComCntrl_Mths", "ComCntrl_Yrs"))

\* a record whose days cell is blank or zero and whose months cell is
\* populated: the result is 0, the months are ignored
C3_Witness ==
    /\ FromSource
    /\ {"Probation_Days", "Probation_Mths"} \subseteq file.cols
    /\ \E i \in 1..Len(file.rows) :
          /\ file.rows[i]["Probation_Days"] \in {NaN, Num(0)}
          /\ file.rows[i]["Probation_Mths"] = Num(2)
          /\ df.rows[i]["Probation_Days_Clean"] = Num(0)

\* a cell of a text column as the preparation sees it: blank is missing
Missing(c) == c.k = "nan"

\* the judge name the rule of the data model gives a source row
NormalName(s) == IF s \in {<<>>, <<"n", "a", "n">>, <<"N", "a", "N">>} THEN Unknown ELSE s

NameOf(cols, r) ==
    IF name_parts \subseteq cols
    THEN IF Missing(r["Judge_First_Name"]) \/ Missing(r["Judge_Last_Name"])
         THEN Unknown
         ELSE NormalName(strip(strip(r["Judge_First_Name"].s) \o <<" ">>
                  \o (IF Missing(r["Judge_Middle_Intial"]) THEN <<>>
                      ELSE r["Judge_Middle_Intial"].s)
                  \o <<" ">> \o strip(r["Judge_Last_Name"].s)))
    ELSE IF "Judge" \in cols
         THEN IF Missing(r["Judge"]) THEN Unknown ELSE NormalName(strip(r["Judge"].s))
    ELSE Unknown

\* C4: Judge_Full_Name of every record is non-empty and is the trimmed
\* concatenation of first, middle initial and last name when the three name
\* columns exist, else the Judge value, else "Unknown"; an empty or nan-like
\* result, a name built from a missing first or last name included, is
\* "Unknown".
C4_JudgeFullName ==
    /\ pc = "ready" =>
          \A i \in 1..Len(df.rows) :
              /\ df.rows[i]["Judge_Full_Name"].k = "str"
              /\ df.rows[i]["Judge_Full_Name"].s # <<>>
    /\ FromSource =>
          \A i \in 1..Len(df.rows) :
              df.rows[i]["Judge_Full_Name"] = Str(NameOf(file.cols, file.rows[i]))

\* the number of records of the fixture
FixtureRows == 5

\* the invariants of the data model on a table
DataModelInvariants(t) ==
    \A i \in 1..Len(t.rows) :
        /\ \A c \in NumericFields : t.rows[i][c].k = "num" /\ t.rows[i][c].n >= 0
        /\ t.rows[i]["Has_Sentence"] = Bool(\E c \in NumericFields : t.rows[i][c].n > 0)
        /\ t.rows[i]["Judge_Full_Name"].k = "str"
        /\ t.rows[i]["Judge_Full_Name"].s # <<>>

\* a step of the preparation throws on this file: a number among the middle
\* initials makes the concatenation of the name a TypeError
StepThrows(f) ==
    /\ name_parts \subseteq f.cols
    /\ \E i \in 1..Len(f.rows) : f.rows[i]["Judge_Middle_Intial"].k = "num"

\* C5: load_data always returns a table; when the file is absent, unreadable,
\* has no row, or a step throws, the table is the 5-record fixture of
\* create_sample_data, which satisfies the invariants of the data model.
C5_FixtureFallback ==
    pc = "ready" =>
        /\ Len(df.rows) > 0
        /\ (~file.exists \/ ~file.readable \/ Len(file.rows) = 0 \/ StepThrows(file))
              => /\ df = create_sample_data
                 /\ Len(df.rows) = FixtureRows
                 /\ DataModelInvariants(df)

\* the preparation threw on the name of a file with rows, and df is the fixture
C5_Witness ==
    /\ pc = "ready"
    /\ file.exists /\ file.readable /\ Len(file.rows) > 0
    /\ StepThrows(file)
    /\ df = create_sample_data

----------------------------------------------------------------------------
(* Properties of the callback, checked under Spec *)

\* the row satisfies the predicates the current selections activate
Selected(r) ==
    /\ sel.judge # All => r["Judge_Full_Name"] = Str(sel.judge)
    /\ sel.charge # All =>
          /\ "ChargeOffenseDescription" \in df.cols
          /\ r["ChargeOffenseDescription"] = Str(sel.charge)
    /\ sel.sentence = with_sentence => r["Has_Sentence"] = Bool(TRUE)
    /\ sel.sentence = no_sentence => r["Has_Sentence"] = Bool(FALSE)

\* the callback got as far as its filtered table
HasFiltered == pc = "returned" /\ "filtered_df" \in DOMAIN out

\* C6: the filtered table of update_dashboard is the rows of df, in the order
\* of df and unaltered, that satisfy every active predicate (judge equal,
\* charge equal, Has_Sentence true or false); all of df when none is active.
C6_FilteredRows ==
    HasFiltered =>
        /\ out.filtered_df.cols = df.cols
        /\ out.filtered_df.rows = SelectSeq(df.rows, Selected)
        /\ (sel.judge = All /\ sel.charge = All /\ sel.sentence = All)
              => out.filtered_df = df

\* a judge, a charge and a sentence filter are active together and keep some
\* rows of df, not all
C6_Witness ==
    /\ HasFiltered
    /\ sel.judge \notin {All, NoSuchJudge}
    /\ sel.charge \notin {All, NoSuchCharge}
    /\ sel.sentence = with_sentence
    /\ out.filtered_df.rows # <<>>
    /\ Len(out.filtered_df.rows) < Len(df.rows)

\* C7: the filters commute: judge then charge keeps the rows that charge then
\* judge keeps, and so for every order of the three filters.
C7_OrderInsensitive ==
    pc = "called" =>
        LET j == sel.judge
            c == sel.charge
            s == sel.sentence
            jcs == filter_sentence(filter_charge(filter_judge(df, j), c), s)
        IN  /\ filter_charge(filter_judge(df, j), c)
                  = filter_judge(filter_charge(df, c), j)
            /\ jcs = filter_sentence(filter_judge(filter_charge(df, c), j), s)
            /\ jcs = filter_charge(filter_sentence(filter_judge(df, j), s), c)
            /\ jcs = filter_judge(filter_sentence(filter_charge(df, c), s), j)
            /\ jcs = filter_charge(filter_judge(filter_sentence(df, s), j), c)
            /\ jcs = filter_judge(filter_charge(filter_sentence(df, s), c), j)

\* a judge and a charge are selected, each filter alone keeps more rows than
\* the two together, and the two together keep some
C7_Witness ==
    /\ pc = "called"
    /\ sel.judge # All /\ sel.charge # All
    /\ ~IsRaised(filter_charge(df, sel.charge))
    /\ LET both == filter_charge(filter_judge(df, sel.judge), sel.charge).rows
       IN  /\ both # <<>>
           /\ Len(both) < Len(filter_judge(df, sel.judge).rows)
           /\ Len(both) < Len(filter_charge(df, sel.charge).rows)

\* the sum and the number of the positive values of a column
RECURSIVE PositiveSum(_, _)
PositiveSum(rows, col) ==
    IF rows = <<>> THEN 0
    ELSE (IF rows[1][col].n > 0 THEN rows[1][col].n ELSE 0)
         + PositiveSum(Tail(rows), col)

PositiveCount(rows, col) == Cardinality({i \in 1..Len(rows) : rows[i][col].n > 0})

\* the statistic the summary owes a column
MeanOfPositive(rows, col, label, none) ==
    IF PositiveCount(rows, col) > 0
    THEN [text |-> label,
          tenths |-> Tenths(PositiveSum(rows, col), PositiveCount(rows, col))]
    ELSE [text |-> none, tenths |-> 0]

\* C8: the summary's mean jail time is the mean of Jail_Days over the filtered
\* rows with Jail_Days > 0 only, its mean probation likewise; with no positive
\* row the statistic is its placeholder text.
C8_MeanOfPositive ==
    (pc = "returned" /\ out.status = "returned") =>
        /\ out.summary_stats.average_jail =
              MeanOfPositive(out.filtered_df.rows, "Jail_Days",
                             "Average Jail Time", "No jail sentences")
        /\ out.summary_stats.average_probation =
              MeanOfPositive(out.filtered_df.rows, "Probation_Days_Clean",
                             "Average Probation", "No probation sentences")

\* jail values 0, 0, 4 in view: the mean shown is 4.0, not 1.3
C8_Witness ==
    /\ pc = "returned" /\ out.status = "returned"
    /\ Len(out.filtered_df.rows) = 3
    /\ [i \in 1..3 |-> out.filtered_df.rows[i]["Jail_Days"].n] = <<0, 0, 4>>
    /\ out.summary_stats.average_jail = [text |-> "Average Jail Time", tenths |-> 40]

IsPlaceholder(fig, text) == fig.kind = "annotation" /\ fig.text = text /\ fig.x = <<>>

\* C9: on an empty filtered table update_dashboard returns, with the
\* placeholder texts in the summary, the "no sentences" annotation in each of
\* the four distributions, the "no data" annotation as comparison chart
\* whatever judge or charge is selected, and no table row.
C9_EmptyView ==
    (HasFiltered /\ out.filtered_df.rows = <<>>) =>
        /\ out.status = "returned"
        /\ out.summary_stats.cases_in_view = 0
        /\ out.summary_stats.with_sentences.text = "No data"
        /\ out.summary_stats.average_jail.text = "No jail sentences"
        /\ out.summary_stats.average_probation.text = "No probation sentences"
        /\ IsPlaceholder(out.jail_fig, "No jail sentences in filtered data")
        /\ IsPlaceholder(out.probation_fig, "No probation sentences in filtered data")
        /\ IsPlaceholder(out.cc_fig, "No community control sentences in filtered data")
        /\ IsPlaceholder(out.cs_fig, "No community service sentences in filtered data")
        /\ out.comparison_fig.mode = "no_data"
        /\ out.comparison_fig.text = "No data to display"
        /\ out.table_data = <<>>

\* a judge that no row of a table with rows names is selected
C9_Witness ==
    /\ HasFiltered
    /\ sel.judge = NoSuchJudge
    /\ df.rows # <<>>
    /\ out.filtered_df.rows = <<>>
    /\ out.status = "returned"

\* the keys of the groups of a chart, as a set
GroupKeys(fig) == {fig.groups[i].key : i \in 1..Len(fig.groups)}

\* the texts of a column among the selected rows of df
SelectedValues(col) ==
    {r[col].s : r \in {df.rows[i] : i \in {k \in 1..Len(df.rows) : Selected(df.rows[k])}}}

\* C10: the comparison chart is in one mode: no data on an empty filtered
\* table; else the breakdown by charge when a judge is selected, over the
\* rows the charge and sentence filters left; else the breakdown by judge
\* when a charge is selected; else the 20 judges with most cases.
C10_ComparisonMode ==
    (pc = "returned" /\ out.status = "returned") =>
        LET fig == out.comparison_fig
            rows == SelectSeq(df.rows, Selected)
        IN  /\ fig.mode \in {"by_charge", "by_judge", "top_judges", "no_data"}
            /\ fig.mode = "no_data" <=> rows = <<>>
            /\ fig.mode = "by_charge" <=> (rows # <<>> /\ sel.judge # All)
            /\ fig.mode = "by_judge" <=>
                  (rows # <<>> /\ sel.judge = All /\ sel.charge # All)
            /\ fig.mode = "top_judges" <=>
                  (rows # <<>> /\ sel.judge = All /\ sel.charge = All)
            /\ fig.mode = "by_charge" =>
                  GroupKeys(fig) = SelectedValues("ChargeOffenseDescription")
            /\ fig.mode \in {"by_judge", "top_judges"} =>
                  GroupKeys(fig) = SelectedValues("Judge_Full_Name")
            /\ fig.mode = "top_judges" => Len(fig.groups) <= 20

\* a judge and a charge are selected together: the chart is the breakdown by
\* charge and shows the selected charge alone, though the judge has rows of
\* another charge
C10_Witness ==
    /\ pc = "returned" /\ out.status = "returned"
    /\ sel.judge \notin {All, NoSuchJudge}
    /\ sel.charge \notin {All, NoSuchCharge}
    /\ out.comparison_fig.mode = "by_charge"
    /\ GroupKeys(out.comparison_fig) = {sel.charge}
    /\ \E i \in 1..Len(df.rows) :
          /\ df.rows[i]["Judge_Full_Name"] = Str(sel.judge)
          /\ df.rows[i]["ChargeOffenseDescription"] # Str(sel.charge)

\* C11: whatever table load_data prepared, a table whose source lacks the
\* case number or the charge description included, and whatever the judge,
\* the charge and the sentence selected, update_dashboard returns its seven
\* outputs: no exception leaves it.
C11_NoErrorPropagates ==
    pc = "returned" =>
        /\ out.status = "returned"
        /\ {"summary_stats", "jail_fig", "probation_fig", "cc_fig", "cs_fig",
            "comparison_fig", "table_data"} \subseteq DOMAIN out

\* C12: once load_data has returned, df stays the table it returned, row for
\* row and field for field, through every invocation of update_dashboard,
\* whatever it is invoked with and whether it returns or raises.
C12_TableReadOnly ==
    [][pc # "start" => df' = df]_vars

\* an invocation whose filters kept some rows and dropped others has ended,
\* and df has the rows it had
C12_Witness ==
    /\ HasFiltered
    /\ out.filtered_df.rows # <<>>
    /\ Len(out.filtered_df.rows) < Len(df.rows)
    /\ df = load_data(file)

\* the rows of the filtered table whose column by holds the text k
Members(rows, by, k) == SelectSeq(rows, LAMBDA r : r[by] = Str(k))

\* the texts of a column of the filtered table
KeysOf(rows, by) == {rows[i][by].s : i \in 1..Len(rows)}

\* the groups g are groups of the rows by the column by, one for a key, each
\* with the number of its rows, the largest first, and no more than n of
\* them: those left out have no more rows than any that is kept
IsTopGroups(g, rows, by, n) ==
    /\ Len(g) <= n
    /\ \A a, b \in 1..Len(g) : g[a].key = g[b].key => a = b
    /\ \A a \in 1..Len(g) :
          /\ g[a].key \in KeysOf(rows, by)
          /\ g[a].CaseNumber = Len(Members(rows, by, g[a].key))
    /\ \A a, b \in 1..Len(g) : a < b => g[a].CaseNumber >= g[b].CaseNumber
    /\ Len(g) < n => GroupKeys([groups |-> g]) = KeysOf(rows, by)
    /\ \A k \in KeysOf(rows, by) \ GroupKeys([groups |-> g]) :
          \A a \in 1..Len(g) : Len(Members(rows, by, k)) <= g[a].CaseNumber

\* each group carries the means of the four numeric fields over its rows,
\* to one decimal
HasGroupMeans(g, rows, by) ==
    \A a \in 1..Len(g) : \A f \in NumericFields :
        g[a][f] = Tenths(SumOf(Members(rows, by, g[a].key), f),
                         Len(Members(rows, by, g[a].key)))

\* C14: the breakdown by charge (by judge) groups the filtered rows by the
\* charge (the judge); a group carries the means of the four numeric fields
\* and the number of its rows, rows without a case number counted; the
\* groups are ordered by that number, largest first, and the 15 largest at
\* most are kept.  The chart of the top judges keeps the 20 judges with most
\* rows at most, largest first.
C14_GroupedComparison ==
    (pc = "returned" /\ out.status = "returned") =>
        LET fig == out.comparison_fig
            rows == out.filtered_df.rows
        IN  /\ fig.mode = "by_charge" =>
                  /\ IsTopGroups(fig.groups, rows, "ChargeOffenseDescription", 15)
                  /\ HasGroupMeans(fig.groups, rows, "ChargeOffenseDescription")
            /\ fig.mode = "by_judge" =>
                  /\ IsTopGroups(fig.groups, rows, "Judge_Full_Name", 15)
                  /\ HasGroupMeans(fig.groups, rows, "Judge_Full_Name")
            /\ fig.mode = "top_judges" =>
                  IsTopGroups(fig.groups, rows, "Judge_Full_Name", 20)

----------------------------------------------------------------------------
(* Properties of invocations in flight at once, checked under SpecCalls *)

\* what the invocation in slot i yields when it runs alone on the prepared table
Alone(i) ==
    update_dashboard(load_data(file), calls[i].sel.judge, calls[i].sel.charge,
                     calls[i].sel.sentence)

\* C13: however the steps of the invocations in flight interleave, each ends
\* with the outputs (or the exception) it yields when it runs alone with its
\* three selections, and two that were given the same selections end with the
\* same outputs.
C13_NoInterference ==
    /\ \A i \in 1..Invocations :
          calls[i].pc = "returned" => calls[i].out = Alone(i)
    /\ \A i, k \in 1..Invocations :
          (/\ calls[i].pc = "returned"
           /\ calls[k].pc = "returned"
           /\ calls[i].sel = calls[k].sel) => calls[i].out = calls[k].out

\* two invocations are at their return at once, one filtered by judge and one
\* not, and their outputs differ
C13_Witness ==
    \E i, k \in 1..Invocations :
        /\ i # k
        /\ calls[i].pc = "returned" /\ calls[k].pc = "returned"
        /\ calls[i].sel.judge = All /\ calls[k].sel.judge # All
        /\ calls[i].out.status = "returned" /\ calls[k].out.status = "returned"
        /\ calls[k].out.filtered_df.rows # <<>>
        /\ Len(calls[k].out.filtered_df.rows) < Len(calls[i].out.filtered_df.rows)

====
